---- MODULE Spec2Model ----
(***************************************************************************)
(* Verification model of the incremental annotation pipeline:              *)
(*   - the phase runners analysis_p2.py, analysis_p3.py, analysis_p4.py    *)
(*     and analysis_p2_claude.py (load, per-record loop, retry, apply,     *)
(*     save, progress events),                                             *)
(*   - the provider clients gemini_api.py / the inline OpenAI and Claude   *)
(*     paths (rate-limit handling),                                        *)
(*   - the bulk regeneration scripts (batches, per-member application).    *)
(* The dataset file is the only durable state; a process crash loses the   *)
(* memory of the run and keeps the file.                                   *)
(***************************************************************************)
EXTENDS Integers, Sequences, FiniteSets, TLC

(***************************************************************************)
(* Bounds of the model.                                                    *)
(***************************************************************************)
NumRecords == 2        \* records in the dataset of a phase run
VocabRecords == 4      \* records in the dataset of the vocabulary runs
RecursionLimit == 7    \* depth at which the interpreter ends an unbounded recursion
TopThemes == 1         \* the 'most common 1000' cap of phase 3, scaled down
BatchSize == 2         \* cases per bulk request (batch_size 3 and 5, scaled down)
MaxBody == 7           \* longest record body, in tokens
treat_limit == 4       \* treat_dp_text(..., limit=2000), scaled down
BaseTokens == 2        \* system prompt + empty user template + COMPLETION_LEN, scaled down
PROMPT_LIMIT == 8      \* PROMPT_LIMIT = 40000 / 160000, scaled down
MaxContent == 4        \* longest response content, in tokens

(***************************************************************************)
(* Program constants.                                                      *)
(***************************************************************************)
max_retries == 3       \* runner attempts per record
limit == 5             \* get_response(attempt=0, limit=5)

None == "-"                       \* the output field is absent
StrLabels == {"a", "b"}           \* string labels a provider may return
ListLabel == "L"                  \* the list label ["a", "b"]
EmptyLabel == ""                  \* an empty string in place of a label
Labels == StrLabels \cup {ListLabel, EmptyLabel}
Wrapped == {"[a]", "[b]", "[e]"}  \* one-element lists written by analysis_p2_claude;
                                  \* "[e]" is [""]
Values == Labels \cup Wrapped \cup {None}

Phases == {"p2", "p3", "p4", "p2c"}
Configs ==
  {<<"p2", "gemini">>, <<"p2", "openai">>, <<"p3", "gemini">>, <<"p3", "openai">>,
   <<"p4", "gemini">>, <<"p4", "openai">>, <<"p4", "claude">>, <<"p2c", "claude">>}

ThemeSet == {"a"}                 \* themes of the phase-4 themes file

VARIABLES
  phase, provider,        \* which script runs, MODEL_PROVIDER
  n,                      \* number of records of the dataset
  file,                   \* dataset file: [ok, d]
  fileBefore,             \* history: file content when the current save began
  pc, idx,                \* position of the process, loop position
  data,                   \* the dataset in memory
  candidate,              \* candidate_codes / candidate_themes
  attempt,                \* runner retry loop counter
  depth,                  \* client retry: get_response attempt / recursion depth
  processed_cases, total_processed_this_run,
  cur,                    \* record in flight, or last record handled (0: none)
  profile,                \* the kind of every provider response for `cur` so far
  lastKind,               \* the kind of the last provider response for `cur`
  calls, sleeps,          \* provider calls and backoff sleeps for `cur`, counted
                          \* while the responses are all of one kind
  saveTries,              \* calls of save_data_safely for `cur`
  report,                 \* what the run logged for `cur`
  announced,              \* records with a record-level progress event this run
  appliedRun, savedRun, savedBefore, calledRun,   \* history across the run(s)
  promptVocab, prevPromptVocab,      \* labels rendered into the last two prompts
  script,                 \* which bulk regeneration runs ("off": none)
  bpc, bpos, ci,          \* bulk: position, first case of the batch, case in hand
  json_result,            \* bulk: parsed response of the batch
  lastBatch,              \* history: the caseIds json_result was applied to
  batch_updated_codes,    \* bulk codes: results of the batch in hand
  updated,                \* updated_themes / all_updated_codes
  events,                 \* bulk themes: cases with a progress event
  plny_skutek,            \* record bodies, as token sequences
  plny_skutek_short,      \* the shortened bodies written by tiktoken_test.py
  content,                \* parsing: the content the provider produced
  parsed,                 \* parsing: result of response_to_json per wrapping
  missing,                \* the startup file that does not exist ("none": all exist)
  template,               \* prompts: the template file, as a token sequence
  global_instructions,    \* prompts: the steering instructions of the invocation
  user_prompt,            \* prompts: the prompt each builder sends for a record
  initial_code_0,         \* phase 3 input: the records that carry initial_code_0
  all_existing_themes,    \* rendering: the list of labels handed to a builder
  themes_text,            \* rendering: the vocabulary fill of each builder
  other_writes,           \* history: <<record, label>> a second writer put in the file
  response_json,          \* add_codes: json_result, the parsed response
  existing_codes,         \* add_codes: the existing codes of the case
  truly_new_codes         \* add_codes: the outcome of the call

bulkVars == <<script, bpc, bpos, ci, json_result, lastBatch, batch_updated_codes,
              updated, events>>
textVars == <<plny_skutek, plny_skutek_short>>
parseVars == <<content, parsed>>
renderVars == <<all_existing_themes, themes_text>>
addVars == <<response_json, existing_codes, truly_new_codes>>
extraVars == <<renderVars, other_writes, addVars>>
confVars == <<missing, template, global_instructions, user_prompt, initial_code_0, extraVars>>
cfgVars == <<phase, provider, n, bulkVars, textVars, parseVars, confVars>>
memVars == <<data, candidate, attempt, depth, processed_cases, total_processed_this_run>>
recVars == <<cur, calls, sleeps, saveTries, profile, lastKind, report>>
histVars == <<announced, appliedRun, savedRun, savedBefore, calledRun,
              promptVocab, prevPromptVocab>>
vars == <<cfgVars, file, fileBefore, pc, idx, memVars, recVars, histVars>>

(***************************************************************************)
(* Helpers.                                                                *)
(***************************************************************************)
Range(s) == {s[i] : i \in DOMAIN s}

Ids == 1..n                       \* the keys, in the order of data.items()
NoData == [r \in Ids |-> None]
Corrupt == [ok |-> FALSE, d |-> NoData]   \* truncated / unparseable file

IsList(v) == v \in {ListLabel} \cup Wrapped

\* members of a label value: str(c) for c in code / [str(code)]
Flatten(v) ==
  CASE v = ListLabel -> <<"a", "b">>
    [] v = "[a]" -> <<"a">>
    [] v = "[b]" -> <<"b">>
    [] v = "[e]" -> <<EmptyLabel>>
    [] OTHER -> <<v>>

\* the mutated membership test: nothing is ever regarded as done
HasOutputNever(d, r) == FALSE

\* `OUTPUT_FIELD in data_point`
HasOutput(d, r) == d[r] # None

\* a phase-4 skip test that never skips
HasThemeNever(d, r) == FALSE

\* phase 4: OUTPUT_FIELD in case_data and str(theme).strip() in theme_set
HasTheme(d, r) == d[r] # None /\ d[r] \in ThemeSet

Done(d, r) == IF phase = "p4" THEN HasTheme(d, r) ELSE HasOutput(d, r)

RECURSIVE FieldsFrom(_, _)
\* [dp[OUTPUT_FIELD] for dp in data.values() if OUTPUT_FIELD in dp], from key r on
FieldsFrom(d, r) ==
  IF r > n THEN <<>>
  ELSE (IF HasOutput(d, r) THEN <<d[r]>> ELSE <<>>) \o FieldsFrom(d, r + 1)

RECURSIVE FlattenAll(_)
FlattenAll(s) == IF s = <<>> THEN <<>> ELSE Flatten(Head(s)) \o FlattenAll(Tail(s))

\* the list the run starts with
InitialCandidates(d) ==
  CASE phase = "p2" -> FlattenAll(FieldsFrom(d, 1))
    [] phase \in {"p3", "p2c"} -> FieldsFrom(d, 1)
    [] OTHER -> <<>>

Count(s, x) == Cardinality({i \in DOMAIN s : s[i] = x})
FirstAt(s, x) == CHOOSE i \in DOMAIN s : s[i] = x /\ \A j \in 1..(i - 1) : s[j] # x
\* order of Counter.most_common: count descending, first insertion first
Before(s, x, y) ==
  \/ Count(s, x) > Count(s, y)
  \/ Count(s, x) = Count(s, y) /\ FirstAt(s, x) < FirstAt(s, y)
MostCommon(s, k) ==
  {x \in Range(s) : Cardinality({y \in Range(s) : Before(s, y, x)}) < k}

\* Counter(candidate_themes) needs hashable members
Unhashable(s) == \E i \in DOMAIN s : IsList(s[i])

\* a builder that always renders the "first batch" text
RenderedVocabFirstBatch(c) == {}

\* the labels construct_user_prompt renders into the prompt
RenderedVocab(c) ==
  CASE phase \in {"p2", "p2c"} -> Range(FlattenAll(c))
    [] phase = "p3" -> MostCommon(c, TopThemes)
    [] OTHER -> {}

\* count_unique_themes raises TypeError on a list-valued theme
UniqueThemesRaises(d) == \E r \in Ids : IsList(d[r])

\* a startup count that finds nothing
NumDoneZero(d) == 0

\* processed_cases = len([dp for dp in data.values() if OUTPUT_FIELD in dp]);
\* phase 4 counts `OUTPUT_FIELD in v and v[OUTPUT_FIELD]`
NumDone(d) ==
  Cardinality({r \in Ids : HasOutput(d, r) /\ (phase = "p4" => d[r] # EmptyLabel)})

NoOutcome == <<"none", "">>

(***************************************************************************)
(* Bulk regeneration: bulk_regenerate_themes_p3.py (themes) and            *)
(* bulk_regenerate_codes.py (codes).  A JSON value is a token: "[x]" is    *)
(* the list ["x"], "[]" the empty list, "s" a string, "" the empty string. *)
(***************************************************************************)
BulkScripts == {"themes", "codes"}
BulkCases == <<"1", "11", "2">>          \* caseId of each entry of cases_data
BulkIds == Range(BulkCases)
Absent == "absent"                       \* the key is not in json_result
JsonValues == {"[x]", "[y]", "s", "[]", ""}
ListValues == {"[x]", "[y]", "[s]", "[]", "[old]"}
existingCodes == "[old]"                 \* case['existingCodes'] of every case
NoResponse == [k \in BulkIds |-> Absent]
NoUpdates == [k \in BulkIds |-> None]

\* `case_id in str(key)`
SubstringOf(case_id, key) == case_id = key \/ (case_id = "1" /\ key = "11")

\* indices into cases_data of the batch that starts at b
BatchAt(b) == {i \in DOMAIN BulkCases : b <= i /\ i < b + BatchSize}

\* the value the codes script takes for a case: its own entry, else any
\* list-valued entry whose key contains the caseId, else the existing codes
RawCodes(case_id, r) ==
  IF r[case_id] # Absent THEN {r[case_id]}
  ELSE LET fuzzy == {k \in BulkIds : r[k] # Absent /\ SubstringOf(case_id, k)
                                      /\ r[k] \in ListValues}
       IN IF fuzzy # {} THEN {r[k] : k \in fuzzy} ELSE {existingCodes}

\* `if not isinstance(new_codes, list): new_codes = [new_codes] if new_codes else []`
AsList(v) ==
  IF v \in ListValues THEN v ELSE IF v = "" THEN "[]" ELSE IF v = "s" THEN "[s]" ELSE v

\* empty after filtering: the existing codes
NewCodes(v) == IF AsList(v) = "[]" THEN existingCodes ELSE AsList(v)

(***************************************************************************)
(* Record bodies and the prompt size.  A body is a sequence of tokens; the  *)
(* token at position i of an original body is i, the elision marker is 0.  *)
(***************************************************************************)
Body(k) == [i \in 1..k |-> i]
Bodies == {Body(k) : k \in 0..MaxBody}
Missing == <<-1>>                         \* the record has no such field
Marker == <<0>>                           \* '\n[...]\n', at least one token

\* `s[-k:]`
LastTokens(s, k) == IF k = 0 THEN s ELSE SubSeq(s, Len(s) - k + 1, Len(s))

treat_dp_text(enc_dp, lim) ==
  IF Len(enc_dp) > lim
    THEN SubSeq(enc_dp, 1, lim \div 2) \o Marker \o LastTokens(enc_dp, lim \div 2)
    ELSE enc_dp

\* `data_point.get("plny_skutek_short") or data_point.get("plny_skutek") or ""`
case_text(r) ==
  IF plny_skutek_short[r] \notin {Missing, <<>>} THEN plny_skutek_short[r]
  ELSE IF plny_skutek[r] # Missing THEN plny_skutek[r] ELSE <<>>

\* tokens of system prompt, user prompt with the vocabulary, and completion
prompt_length_base(c) == BaseTokens + Cardinality(RenderedVocab(c))

\* estimated size of the prompt that is sent for record r
PromptTokens(c, r) == prompt_length_base(c) + Len(case_text(r))

\* the dataset carries no text
TextOff ==
  /\ plny_skutek = [r \in Ids |-> <<>>]
  /\ plny_skutek_short = [r \in Ids |-> Missing]

(***************************************************************************)
(* response_to_json.  A text is a sequence of tokens: "F" is a run of      *)
(* three backticks, "j" the word json, "n" white space, "{" and "}" the    *)
(* braces of an object, "a" an entry of plain text.  Inside the braces "F" *)
(* is an entry whose string holds three backticks.                         *)
(***************************************************************************)
ContentTokens == {"{", "}", "a", "F"}
Wrappings == {"raw", "json", "plain"}
NotParsed == <<"?">>
Undecodable == <<"!">>

RECURSIVE SeqsUpTo(_, _)
SeqsUpTo(S, k) ==
  IF k = 0 THEN {<<>>}
  ELSE LET shorter == SeqsUpTo(S, k - 1)
       IN shorter \cup {Append(t, x) : t \in {u \in shorter : Len(u) = k - 1}, x \in S}

\* the text the provider sends for a content under a wrapping
Wrap(c, w) ==
  CASE w = "json" -> <<"F", "j", "n">> \o c \o <<"n", "F">>
    [] w = "plain" -> <<"F", "n">> \o c \o <<"n", "F">>
    [] OTHER -> c

RECURSIVE strip(_)
strip(t) ==
  IF t = <<>> THEN t
  ELSE IF Head(t) = "n" THEN strip(Tail(t))
  ELSE IF t[Len(t)] = "n" THEN strip(SubSeq(t, 1, Len(t) - 1))
  ELSE t

\* `"```" in t[k:]`, k counted in tokens
FenceFrom(t, k) == \E i \in k..Len(t) : t[i] = "F"

\* `t.split("```", 1)[0]`
BeforeFence(t) ==
  IF FenceFrom(t, 1)
    THEN SubSeq(t, 1, (CHOOSE i \in 1..Len(t) : t[i] = "F" /\ \A j \in 1..(i - 1) : t[j] # "F") - 1)
    ELSE t

\* the two branches that take the text out of a markdown code block
Unfenced(t) ==
  IF Len(t) >= 2 /\ t[1] = "F" /\ t[2] = "j" /\ FenceFrom(t, 3)
    THEN strip(BeforeFence(SubSeq(t, 3, Len(t))))
  ELSE IF Len(t) >= 1 /\ t[1] = "F" /\ FenceFrom(t, 2)
    THEN strip(BeforeFence(SubSeq(t, 2, Len(t))))
  ELSE t

\* json.loads: the entries of an object, or JSONDecodeError
json_loads(t) ==
  IF /\ Len(t) >= 2 /\ t[1] = "{" /\ t[Len(t)] = "}"
     /\ \A i \in 2..(Len(t) - 1) : t[i] \in {"a", "F"}
    THEN SubSeq(t, 2, Len(t) - 1)
    ELSE Undecodable

\* undecodable text yields the empty map
response_to_json(t) ==
  LET res == json_loads(Unfenced(strip(t)))
  IN IF res = Undecodable THEN <<>> ELSE res

\* no response is being parsed
ParseOff ==
  /\ content = <<>>
  /\ parsed = [w \in Wrappings |-> NotParsed]

(***************************************************************************)
(* Startup configuration: MODEL_PROVIDER and the files read before the     *)
(* loop.                                                                   *)
(***************************************************************************)
\* values of MODEL_PROVIDER; "mistral" stands for any name no script tests for
Providers == {"gemini", "openai", "claude", "mistral"}
Supported == {"gemini", "openai", "claude"}
StartupFiles == {"dataset", "template", "system_prompt", "themes"}

(***************************************************************************)
(* Prompt building.  A template is a sequence of tokens: plain text and    *)
(* placeholders; a prompt is a sequence of text, placeholders left over    *)
(* and the sections substituted in.                                        *)
(***************************************************************************)
MaxTemplate == 3
\* the vocabulary placeholder of phase 2, that of phase 3, the data placeholder
Placeholders == {"{{INITIAL_CODES}}", "{{CANDIDATE_THEMES}}", "{{DATA}}"}
TemplateTokens == {"text"} \cup Placeholders
\* --global-instructions / --instructions: not given, whitespace only, text
InstructionValues == {"absent", "blank", "given"}
\* construct_user_prompt of analysis_p2.py with the per-case substitution,
\* create_p3_bulk_regeneration_prompt (create_p3_regeneration_prompt alike)
Builders == {"p2", "p3_regeneration"}
NotBuilt == <<"?">>

\* str.replace: every occurrence of the placeholder `ph` becomes `by`
RECURSIVE replace(_, _, _)
replace(t, ph, by) ==
  IF t = <<>> THEN <<>>
  ELSE (IF Head(t) = ph THEN by ELSE <<Head(t)>>) \o replace(Tail(t), ph, by)

\* analysis_p2.construct_user_prompt: the codes, then the instructions before
\* the data placeholder, or at the end when the template has none
construct_user_prompt(t, instr) ==
  LET with_codes == replace(t, "{{INITIAL_CODES}}", <<"codes">>)
  IN  IF instr = "given"      \* `global_instructions and global_instructions.strip()`
        THEN IF \E i \in DOMAIN with_codes : with_codes[i] = "{{DATA}}"
               THEN replace(with_codes, "{{DATA}}", <<"instructions", "{{DATA}}">>)
               ELSE with_codes \o <<"instructions">>
        ELSE with_codes

\* analysis_p2.py, per case: the case data replaces the data placeholder
user_prompt_w_data(t, instr) == replace(construct_user_prompt(t, instr), "{{DATA}}", <<"data">>)

\* create_p3_bulk_regeneration_prompt: the instructions go in front of the
\* template (`if custom_instructions:` is true for a whitespace-only string)
create_p3_bulk_regeneration_prompt(t, instr) ==
  LET base_prompt == IF instr # "absent" THEN <<"instructions">> \o t ELSE t
      with_themes == replace(base_prompt, "{{CANDIDATE_THEMES}}", <<"codes">>)
  IN  replace(with_themes, "{{DATA}}", <<"data">>)

\* the placeholder the builder fills with the vocabulary
VocabPlaceholder(b) == IF b = "p2" THEN "{{INITIAL_CODES}}" ELSE "{{CANDIDATE_THEMES}}"

\* a template made for builder `b`: one data placeholder, the builder's
\* vocabulary placeholder once and before it, no other placeholder
MadeFor(t, b) ==
  /\ Cardinality({i \in DOMAIN t : t[i] = "{{DATA}}"}) = 1
  /\ Cardinality({i \in DOMAIN t : t[i] = VocabPlaceholder(b)}) = 1
  /\ \E i, j \in DOMAIN t : i < j /\ t[i] = VocabPlaceholder(b) /\ t[j] = "{{DATA}}"
  /\ \A i \in DOMAIN t : t[i] \in {"text", "{{DATA}}", VocabPlaceholder(b)}

\* the prompt builder `b` sends
BuiltPrompt(b, t, instr) ==
  IF b = "p2" THEN user_prompt_w_data(t, instr)
  ELSE create_p3_bulk_regeneration_prompt(t, instr)

\* no prompt is being built
PromptOff ==
  /\ template = <<>> /\ global_instructions = "absent"
  /\ user_prompt = [b \in Builders |-> NotBuilt]

\* phase 3, `data_point.get('initial_code_0', [])` joined into the data
\* section of the prompt: empty for a record without the field
codes_text(r) == IF r \in initial_code_0 THEN "codes" ELSE ""

\* every record went through phase 2
InputsPresent == initial_code_0 = Ids

(***************************************************************************)
(* The text a builder puts in the place of the vocabulary placeholder.     *)
(***************************************************************************)
MaxVocab == 2
EmptyList == "[]"                         \* the JSON value []
VocabValues == {"a", EmptyLabel, ListLabel, EmptyList}
\* construct_user_prompt of analysis_p2.py, analysis_p2_claude.py,
\* analysis_p3.py, analysis_p3b.py; create_p3_bulk_regeneration_prompt
Renderers == {"p2", "p2c", "p3", "p3b", "p3_regeneration"}
NotRendered == "?"

\* the strings a list of label values holds once lists are flattened
RECURSIVE Strings(_)
Strings(c) ==
  IF c = <<>> THEN <<>>
  ELSE (IF Head(c) = EmptyList THEN <<>> ELSE Flatten(Head(c))) \o Strings(Tail(c))

\* the fill: the first-batch sentence ("sentinel"), a bullet list
\* ("bullets"), the empty string, or a TypeError of Counter ("raises")
RenderedText(b, c) ==
  CASE b \in {"p2", "p2c"} ->
         IF c = <<>> THEN "sentinel"                  \* `if not initial_codes:`
         ELSE IF Strings(c) = <<>> THEN "" ELSE "bullets"
    [] b = "p3" ->
         IF c = <<>> THEN "sentinel"                  \* `if not candidate_themes:`
         ELSE IF \E i \in DOMAIN c : c[i] \in {ListLabel, EmptyList} THEN "raises"
         ELSE "bullets"
    [] b = "p3b" ->                                   \* no test for an empty list
         IF \E i \in DOMAIN c : c[i] \in {ListLabel, EmptyList} THEN "raises"
         ELSE IF c = <<>> THEN "" ELSE "bullets"
    [] OTHER ->
         IF c = <<>> THEN "sentinel"                  \* `if not all_existing_themes:`
         ELSE IF \A i \in DOMAIN Strings(c) : Strings(c)[i] = EmptyLabel   \* `if theme.strip()`
                THEN "" ELSE "bullets"

\* the list a builder is called with: analysis_p2.py flattens the labels
\* to strings before it calls construct_user_prompt, the others pass them on
BuilderInput(b, c) == IF b = "p2" THEN Strings(c) ELSE c

\* no vocabulary is being rendered
RenderOff ==
  /\ all_existing_themes = <<>>
  /\ themes_text = [b \in Renderers |-> NotRendered]

\* the phase run is the only writer of the dataset file
NoOtherWriter == other_writes = {}

(***************************************************************************)
(* add_codes.py: the codes add_codes takes from a response.                *)
(***************************************************************************)
MaxCodes == 2
CodeValues == {"", " ", "x", "X"}         \* codes a response can hold
ExistingValues == {"X", "y"}              \* codes the case can have
AddCaseId == "7"                          \* case_id
\* the keys of a response, in the order of the dictionary
AddKeys == <<"add_codes_case", "codes", AddCaseId, "case_id", "other", "other2">>

\* a JSON value: a list of codes, or one scalar
AddValues ==
  {[list |-> TRUE, codes |-> c] : c \in SeqsUpTo(CodeValues, MaxCodes)}
    \cup {[list |-> FALSE, codes |-> <<c>>] : c \in CodeValues}

\* the parsed responses: objects of at most two entries
Responses ==
  UNION {[S -> AddValues] :
           S \in {{AddKeys[i], AddKeys[j]} : i, j \in DOMAIN AddKeys} \cup {{}}}

Lower(c) == IF c = "X" THEN "x" ELSE c    \* str(code).lower()
Strip(c) == IF c = " " THEN "" ELSE c     \* str(code).strip()

NoValidCodes == [list |-> FALSE, codes |-> <<>>]

\* the extraction chain: the known keys in turn, then the first list value
new_codes(j) ==
  IF "add_codes_case" \in DOMAIN j THEN j["add_codes_case"]
  ELSE IF "codes" \in DOMAIN j THEN j["codes"]
  ELSE IF AddCaseId \in DOMAIN j THEN j[AddCaseId]
  ELSE IF "case_id" \in DOMAIN j THEN j["case_id"]
  ELSE LET lists == {i \in DOMAIN AddKeys : AddKeys[i] \in DOMAIN j /\ j[AddKeys[i]].list}
       IN IF lists = {} THEN NoValidCodes
          ELSE j[AddKeys[CHOOSE i \in lists : \A k \in lists : i <= k]]

\* `if not isinstance(new_codes, list)`
AsCodeList(v) ==
  IF v.list THEN v.codes ELSE SelectSeq(v.codes, LAMBDA c : c # "")

\* the existing codes as they are given, without lowering
ExistingAsGiven(e) == Range(e)

existing_codes_set(e) == {Lower(e[i]) : i \in DOMAIN e}

NoCall == [status |-> "none", codes |-> <<>>]

add_codes(j, e) ==
  IF new_codes(j) = NoValidCodes
    THEN [status |-> "raised", codes |-> <<>>]        \* ValueError, re-raised
    ELSE LET kept == SelectSeq(AsCodeList(new_codes(j)),
                               LAMBDA c : c # "" /\ Strip(c) # "")
         IN [status |-> "returned",
             codes |-> SelectSeq(kept, LAMBDA c : Lower(c) \notin existing_codes_set(e))]

\* add_codes is not running
AddOff ==
  /\ response_json = <<>>
  /\ existing_codes = <<>>
  /\ truly_new_codes = NoCall

ExtraOff == RenderOff /\ NoOtherWriter /\ AddOff

\* every startup file exists, the default arguments, a complete dataset
ConfOff == missing = "none" /\ PromptOff /\ InputsPresent /\ ExtraOff

(***************************************************************************)
(* Initial state: a fresh dataset file, no process started yet.            *)
(***************************************************************************)
\* no phase script has started yet
RunnerIdle ==
  /\ file = [ok |-> TRUE, d |-> NoData]
  /\ fileBefore = file
  /\ pc = "idle" /\ idx = 0
  /\ data = NoData /\ candidate = <<>> /\ attempt = 0 /\ depth = 0
  /\ processed_cases = 0 /\ total_processed_this_run = 0
  /\ cur = 0 /\ calls = 0 /\ sleeps = 0 /\ saveTries = 0 /\ profile = "none" /\ lastKind = "none"
  /\ report = NoOutcome
  /\ announced = {}
  /\ appliedRun = {} /\ savedRun = {} /\ savedBefore = {} /\ calledRun = FALSE
  /\ promptVocab = {} /\ prevPromptVocab = {}

\* no bulk regeneration is running
BulkOff ==
  /\ script = "off" /\ bpc = "off" /\ bpos = 0 /\ ci = 0
  /\ json_result = NoResponse /\ lastBatch = {}
  /\ batch_updated_codes = NoUpdates /\ updated = NoUpdates /\ events = {}

Init ==
  /\ \E c \in Configs : phase = c[1] /\ provider = c[2]
  /\ n = NumRecords
  /\ RunnerIdle
  /\ BulkOff
  /\ TextOff
  /\ ParseOff
  /\ ConfOff

ClearMem ==
  /\ data' = NoData /\ candidate' = <<>> /\ attempt' = 0 /\ depth' = 0
  /\ processed_cases' = 0 /\ total_processed_this_run' = 0
ClearRec ==
  /\ cur' = 0 /\ calls' = 0 /\ sleeps' = 0 /\ saveTries' = 0 /\ profile' = "none" /\ lastKind' = "none"
  /\ report' = NoOutcome

\* the kind of all responses so far, or "mixed"
NextProfile(kind) == IF profile \in {"none", kind} THEN kind ELSE "mixed"

Running == {"loop", "call", "save", "write"}

(***************************************************************************)
(* Start of a run: load the file, count, build the vocabulary.             *)
(***************************************************************************)
\* json.load of a truncated file, or (phase 3) count_unique_themes /
\* Counter on a list-valued theme, raises before the loop
StartupRaises ==
  \/ ~file.ok
  \/ missing \in {"dataset", "template", "system_prompt"}
  \/ phase = "p4" /\ missing = "themes"
  \/ phase = "p3" /\ UniqueThemesRaises(file.d)

StartRun ==
  /\ pc \in {"idle", "done", "crashed", "aborted"}
  /\ savedBefore' = savedBefore \cup savedRun
  /\ appliedRun' = {} /\ savedRun' = {} /\ calledRun' = FALSE
  /\ announced' = {}
  /\ promptVocab' = {} /\ prevPromptVocab' = {}
  /\ ClearRec
  /\ IF StartupRaises
       THEN /\ pc' = "aborted" /\ idx' = 0
            /\ ClearMem
       ELSE /\ pc' = "loop" /\ idx' = 1
            /\ data' = file.d
            /\ candidate' = InitialCandidates(file.d)
            /\ processed_cases' = NumDone(file.d)
            /\ total_processed_this_run' = 0
            /\ attempt' = 0 /\ depth' = 0
  /\ UNCHANGED <<cfgVars, file, fileBefore>>

(***************************************************************************)
(* The loop over data.items().                                             *)
(***************************************************************************)
\* `if OUTPUT_FIELD in data_point: continue`
SkipRecord ==
  /\ pc = "loop" /\ idx \in Ids
  /\ Done(data, idx)
  /\ idx' = idx + 1
  /\ UNCHANGED <<cfgVars, file, fileBefore, pc, memVars, recVars, histVars>>

\* a pending record is selected and its prompt built; in phase 3 the prompt
\* is built outside the try block, so a TypeError of Counter ends the run
SelectRecord ==
  /\ pc = "loop" /\ idx \in Ids
  /\ ~Done(data, idx)
  /\ IF phase = "p3" /\ Unhashable(candidate)
       THEN /\ pc' = "aborted"
            /\ ClearRec
            /\ UNCHANGED <<attempt, depth, promptVocab, prevPromptVocab>>
       ELSE /\ pc' = "call"
            /\ cur' = idx /\ calls' = 0 /\ sleeps' = 0 /\ saveTries' = 0
            /\ profile' = "none" /\ lastKind' = "none" /\ report' = NoOutcome
            /\ attempt' = 0 /\ depth' = 0
            /\ prevPromptVocab' = promptVocab
            /\ promptVocab' = RenderedVocab(candidate)
  /\ UNCHANGED <<cfgVars, file, fileBefore, idx, data, candidate,
                 processed_cases, total_processed_this_run,
                 announced, appliedRun, savedRun, savedBefore, calledRun>>

\* the log line of the except handler: analysis_p2 tells a safety block apart,
\* the other runners print the exception text
Report(exc) ==
  IF phase = "p2" /\ exc = "safety" THEN <<"blocked", "safety">> ELSE <<"error", exc>>

\* a handler that sends a blocked record to the provider again
OnExceptionRetry(exc) ==
  IF exc = "safety"
    THEN /\ pc' = "call"
         /\ UNCHANGED <<idx, report>>
    ELSE /\ report' = Report(exc)
         /\ idx' = idx + 1
         /\ pc' = "loop"

\* `except Exception as e:` around the retry loop: log, go to the next record
OnException(exc) ==
  /\ report' = Report(exc)
  /\ idx' = idx + 1
  /\ pc' = "loop"

(***************************************************************************)
(* The provider client.                                                    *)
(***************************************************************************)
\* which client code serves get_provider_analysis
CallPolicy ==
  CASE phase = "p2c" -> "claude_recursive"      \* analysis_p2_claude.get_analysis
    [] provider = "gemini" -> "gemini"          \* gemini_api.get_response
    [] phase = "p2" -> "openai_once"            \* inline: one sleep, one more call
    [] OTHER -> "single"                        \* inline, no retry

\* the interpreter's recursion limit is reached: no further call is made
StackExhausted == CallPolicy = "claude_recursive" /\ depth >= RecursionLimit

\* the client absorbs a rate-limit error itself: sleep, call again
ClientRetries ==
  CASE CallPolicy = "gemini" -> depth < limit
    [] CallPolicy = "openai_once" -> depth = 0
    [] CallPolicy = "claude_recursive" -> depth < RecursionLimit
    [] OTHER -> FALSE

\* history of one provider call answered with `kind`, after which the client
\* slept `slept` times
Called(kind, slept) ==
  /\ profile' = NextProfile(kind)
  /\ lastKind' = kind
  /\ calls' = IF NextProfile(kind) = "mixed" THEN 0 ELSE calls + 1
  /\ sleeps' = IF NextProfile(kind) = "mixed" THEN 0 ELSE sleeps + slept
  /\ calledRun' = TRUE

ProviderRateLimited ==
  /\ pc = "call" /\ ClientRetries
  /\ Called("ratelimit", 1)
  /\ depth' = depth + 1
  /\ UNCHANGED <<cfgVars, file, fileBefore, pc, idx, data, candidate, attempt,
                 processed_cases, total_processed_this_run, cur, saveTries, report,
                 announced, appliedRun, savedRun, savedBefore,
                 promptVocab, prevPromptVocab>>

\* a rate-limit error the client gives up on; gemini_api sleeps once more
\* before it raises 'Abandoning the quest ...'
ProviderRateLimitRaised ==
  /\ pc = "call" /\ ~ClientRetries /\ ~StackExhausted
  /\ Called("ratelimit", IF CallPolicy = "gemini" THEN 1 ELSE 0)
  /\ OnException(IF CallPolicy = "gemini" THEN "abandon" ELSE "ratelimit")
  /\ UNCHANGED <<cfgVars, file, fileBefore, memVars, cur, saveTries,
                 announced, appliedRun, savedRun, savedBefore,
                 promptVocab, prevPromptVocab>>

\* RecursionError unwinds the recursive get_analysis
ProviderStackOverflow ==
  /\ pc = "call" /\ StackExhausted
  /\ OnException("recursion")
  /\ UNCHANGED <<cfgVars, file, fileBefore, memVars, cur, calls, sleeps, saveTries,
                 profile, lastKind, histVars>>

\* finish_reason == 2 (only gemini_api.get_analysis reports it), or any other
\* exception of the call
ProviderRaises ==
  /\ pc = "call" /\ ~StackExhausted
  /\ \E exc \in {"safety", "transport"} :
       /\ exc = "safety" => CallPolicy = "gemini"
       /\ Called(IF exc = "safety" THEN "blocked" ELSE "error", 0)
       /\ OnException(exc)
  /\ UNCHANGED <<cfgVars, file, fileBefore, memVars, cur, saveTries,
                 announced, appliedRun, savedRun, savedBefore,
                 promptVocab, prevPromptVocab>>

\* the text decodes to JSON that is no object (a number, null):
\* `id_slt in json_res` raises TypeError
ProviderNonObject ==
  /\ pc = "call" /\ ~StackExhausted
  /\ Called("nonobject", 0)
  /\ OnException("typeerror")
  /\ UNCHANGED <<cfgVars, file, fileBefore, memVars, cur, saveTries,
                 announced, appliedRun, savedRun, savedBefore,
                 promptVocab, prevPromptVocab>>

\* a retry loop that allows one attempt more
RetryAgainOnceMore == attempt < max_retries

\* `for attempt in range(max_retries)`: another attempt follows this one
RetryAgain == attempt + 1 < max_retries

\* the response is a map without the record's id, undecodable text (which
\* response_to_json turns into {}), or a JSON list (`id in list` is False)
ProviderMiss ==
  /\ pc = "call" /\ ~StackExhausted
  /\ Called("miss", 0)
  /\ IF RetryAgain
       THEN /\ attempt' = attempt + 1
            /\ depth' = 0
            /\ UNCHANGED <<pc, idx, report>>
       ELSE /\ report' = <<"notfound", "">>
            /\ idx' = idx + 1
            /\ pc' = "loop"
            /\ UNCHANGED <<attempt, depth>>
  /\ UNCHANGED <<cfgVars, file, fileBefore, data, candidate,
                 processed_cases, total_processed_this_run, cur, saveTries,
                 announced, appliedRun, savedRun, savedBefore,
                 promptVocab, prevPromptVocab>>

\* what is written to the record: analysis_p2_claude wraps a string in a list
Stored(l) ==
  IF phase = "p2c" /\ ~IsList(l)
    THEN CASE l = "a" -> "[a]"
           [] l = "b" -> "[b]"
           [] OTHER -> "[e]"
    ELSE l

\* a vocabulary update that forgets what was there
AppendedReset(c, v) == <<v>>

\* candidate_codes.append(str(code)) per member / candidate_themes.append(theme)
Appended(c, v) ==
  CASE phase = "p2" -> c \o Flatten(v)
    [] phase \in {"p3", "p2c"} -> Append(c, v)
    [] OTHER -> c

\* the response holds the record's id: the label is written to the record in
\* memory and added to the vocabulary; the save follows
ProviderHit ==
  /\ pc = "call" /\ ~StackExhausted
  /\ \E l \in Labels :
       /\ data' = [data EXCEPT ![cur] = Stored(l)]
       /\ candidate' = Appended(candidate, Stored(l))
  /\ Called("hit", 0)
  /\ appliedRun' = appliedRun \cup {cur}
  /\ fileBefore' = file
  /\ pc' = "save"
  /\ UNCHANGED <<cfgVars, file, idx, attempt, depth,
                 processed_cases, total_processed_this_run, cur, saveTries,
                 report, announced, savedRun, savedBefore,
                 promptVocab, prevPromptVocab>>

(***************************************************************************)
(* save_data_safely and what the runner does with its result.              *)
(***************************************************************************)
\* a runner that emits the progress event whatever the save returned
AfterSaveAnnounces(ok) ==
  /\ savedRun' = IF ok THEN appliedRun ELSE savedRun
  /\ idx' = idx + 1
  /\ pc' = "loop"
  /\ total_processed_this_run' = total_processed_this_run + 1
  /\ processed_cases' = processed_cases
  /\ announced' = announced \cup {cur}
  /\ report' = IF ok THEN <<"applied", "">> ELSE <<"savefail", "">>

\* the runner after save_data_safely returned `ok`: events, counters, `break`
AfterSave(ok) ==
  /\ savedRun' = IF ok THEN appliedRun ELSE savedRun
  /\ idx' = idx + 1
  /\ pc' = "loop"
  /\ CASE phase \in {"p2", "p2c"} ->
            /\ total_processed_this_run' = total_processed_this_run + 1
            /\ processed_cases' = processed_cases
            /\ announced' = IF ok /\ phase = "p2" THEN announced \cup {cur} ELSE announced
            /\ report' = IF ok THEN <<"applied", "">> ELSE <<"savefail", "">>
       [] phase = "p3" ->
            /\ total_processed_this_run' =
                 IF ok THEN total_processed_this_run + 1 ELSE total_processed_this_run
            /\ processed_cases' = processed_cases
            /\ announced' =
                 IF ok /\ ~UniqueThemesRaises(data) THEN announced \cup {cur} ELSE announced
            /\ report' = IF ~ok THEN <<"savefail", "">>
                         ELSE IF UniqueThemesRaises(data) THEN <<"error", "typeerror">>
                         ELSE <<"applied", "">>
       [] OTHER ->
            /\ total_processed_this_run' =
                 IF ok THEN total_processed_this_run + 1 ELSE total_processed_this_run
            /\ processed_cases' = IF ok THEN processed_cases + 1 ELSE processed_cases
            /\ announced' = IF ok THEN announced \cup {cur} ELSE announced
            /\ report' = IF ok THEN <<"applied", "">> ELSE <<"savefail", "">>

\* open(filepath, 'w') raises (the file is untouched; the save returns False)
SaveOpenFails ==
  /\ pc = "save"
  /\ saveTries' = saveTries + 1
  /\ AfterSave(FALSE)
  /\ UNCHANGED <<cfgVars, file, fileBefore, data, candidate, attempt, depth,
                 cur, calls, sleeps, profile, lastKind, appliedRun, savedBefore, calledRun,
                 promptVocab, prevPromptVocab>>

\* open(filepath, 'w') truncates the file; json.dump has not written yet
SaveOpen ==
  /\ pc = "save"
  /\ saveTries' = saveTries + 1
  /\ file' = Corrupt
  /\ pc' = "write"
  /\ UNCHANGED <<cfgVars, fileBefore, idx, memVars, cur, calls, sleeps,
                 profile, lastKind, report, histVars>>

\* json.dump and close complete: the file holds the dataset in memory
SaveWrite ==
  /\ pc = "write"
  /\ file' = [ok |-> TRUE, d |-> data]
  /\ fileBefore' = file'
  /\ AfterSave(TRUE)
  /\ UNCHANGED <<cfgVars, data, candidate, attempt, depth,
                 cur, calls, sleeps, saveTries, profile, lastKind,
                 appliedRun, savedBefore, calledRun, promptVocab, prevPromptVocab>>

\* json.dump or close raises (disk full): a partial file is left, the save
\* returns False
SaveWriteFails ==
  /\ pc = "write"
  /\ fileBefore' = file
  /\ AfterSave(FALSE)
  /\ UNCHANGED <<cfgVars, file, data, candidate, attempt, depth,
                 cur, calls, sleeps, saveTries, profile, lastKind,
                 appliedRun, savedBefore, calledRun, promptVocab, prevPromptVocab>>

(***************************************************************************)
(* End of the loop, and a crash of the process.                            *)
(***************************************************************************)
\* the loop is over: the final summary; in phase 3 count_unique_themes runs
\* once more, outside any try block
Finish ==
  /\ pc = "loop" /\ idx > n
  /\ pc' = IF phase = "p3" /\ UniqueThemesRaises(data) THEN "aborted" ELSE "done"
  /\ ClearRec
  /\ UNCHANGED <<cfgVars, file, fileBefore, idx, memVars, histVars>>

\* the process is killed: memory is lost, the file stays as it is
Crash ==
  /\ pc \in Running
  /\ pc' = "crashed"
  /\ idx' = 0
  /\ ClearMem
  /\ ClearRec
  /\ promptVocab' = {} /\ prevPromptVocab' = {}
  /\ UNCHANGED <<cfgVars, file, fileBefore,
                 announced, appliedRun, savedRun, savedBefore, calledRun>>

Next ==
  \/ StartRun
  \/ SkipRecord
  \/ SelectRecord
  \/ ProviderRateLimited
  \/ ProviderRateLimitRaised
  \/ ProviderStackOverflow
  \/ ProviderRaises
  \/ ProviderNonObject
  \/ ProviderMiss
  \/ ProviderHit
  \/ SaveOpenFails
  \/ SaveOpen
  \/ SaveWrite
  \/ SaveWriteFails
  \/ Finish
  \/ Crash

Spec == Init /\ [][Next]_vars

(***************************************************************************)
(* Runs on a reliable provider and disk, over a larger dataset: the        *)
(* vocabulary that is rendered into successive prompts.                    *)
(***************************************************************************)
InitVocab ==
  /\ \E c \in {<<"p2", "gemini">>, <<"p3", "gemini">>, <<"p2c", "claude">>} :
       phase = c[1] /\ provider = c[2]
  /\ n = VocabRecords
  /\ RunnerIdle
  /\ BulkOff
  /\ TextOff
  /\ ParseOff
  /\ ConfOff

NextVocab ==
  \/ StartRun
  \/ SkipRecord
  \/ SelectRecord
  \/ ProviderMiss
  \/ ProviderHit
  \/ SaveOpen
  \/ SaveWrite
  \/ Finish

SpecVocab == InitVocab /\ [][NextVocab]_vars

(***************************************************************************)
(* The bulk regeneration scripts, one request per batch of cases.          *)
(***************************************************************************)
runnerVars == <<phase, provider, n, textVars, parseVars, confVars, file, fileBefore, pc, idx, memVars, recVars,
                histVars>>

InitBulk ==
  /\ phase = "p2" /\ provider = "gemini" /\ n = NumRecords
  /\ RunnerIdle
  /\ script \in BulkScripts
  /\ bpc = "call" /\ bpos = 1 /\ ci = 0
  /\ json_result = NoResponse /\ lastBatch = {}
  /\ batch_updated_codes = NoUpdates /\ updated = NoUpdates /\ events = {}
  /\ TextOff
  /\ ParseOff
  /\ ConfOff

\* get_analysis and response_to_json return an object
BulkCall ==
  /\ bpc = "call" /\ bpos <= Len(BulkCases)
  /\ \E r \in [BulkIds -> JsonValues \cup {Absent}] : json_result' = r
  /\ bpc' = "case" /\ ci' = bpos
  /\ batch_updated_codes' = NoUpdates
  /\ lastBatch' = {}
  /\ UNCHANGED <<script, bpos, updated, events, runnerVars>>

\* get_analysis or response_to_json raises: the themes script goes on with
\* the next batch, the codes script re-raises out of regenerate_codes_bulk
BulkCallRaises ==
  /\ bpc = "call" /\ bpos <= Len(BulkCases)
  /\ IF script = "themes"
       THEN bpc' = "call" /\ bpos' = bpos + BatchSize
       ELSE bpc' = "failed" /\ bpos' = bpos
  /\ lastBatch' = {}
  /\ UNCHANGED <<script, ci, json_result, batch_updated_codes, updated, events, runnerVars>>

\* one member of the batch
BulkCase ==
  /\ bpc = "case" /\ ci \in BatchAt(bpos)
  /\ LET case_id == BulkCases[ci] IN
       IF script = "themes"
         THEN /\ IF json_result[case_id] # Absent
                   THEN /\ updated' = [updated EXCEPT ![case_id] = json_result[case_id]]
                        /\ events' = events \cup {case_id}
                   ELSE UNCHANGED <<updated, events>>
              /\ UNCHANGED batch_updated_codes
         ELSE /\ \E v \in RawCodes(case_id, json_result) :
                   batch_updated_codes' = [batch_updated_codes EXCEPT ![case_id] = NewCodes(v)]
              /\ UNCHANGED <<updated, events>>
  /\ ci' = ci + 1
  /\ UNCHANGED <<script, bpc, bpos, json_result, lastBatch, runnerVars>>

\* `all_updated_codes.update(batch_updated_codes)`, then the next batch
BulkBatchEnd ==
  /\ bpc = "case" /\ ci \notin BatchAt(bpos)
  /\ updated' = IF script = "codes"
                  THEN [k \in BulkIds |-> IF batch_updated_codes[k] # None
                                            THEN batch_updated_codes[k] ELSE updated[k]]
                  ELSE updated
  /\ lastBatch' = {BulkCases[i] : i \in BatchAt(bpos)}
  /\ bpos' = bpos + BatchSize
  /\ bpc' = "call"
  /\ UNCHANGED <<script, ci, json_result, batch_updated_codes, events, runnerVars>>

\* the result is printed / returned
BulkFinish ==
  /\ bpc = "call" /\ bpos > Len(BulkCases)
  /\ bpc' = "done"
  /\ UNCHANGED <<script, bpos, ci, json_result, lastBatch, batch_updated_codes,
                 updated, events, runnerVars>>

\* what main prints once the operation ended: the collected results, or an
\* error object that carries none
Returned == IF bpc = "done" THEN updated ELSE NoUpdates

NextBulk ==
  \/ BulkCall
  \/ BulkCallRaises
  \/ BulkCase
  \/ BulkBatchEnd
  \/ BulkFinish

SpecBulk == InitBulk /\ [][NextBulk]_vars

(***************************************************************************)
(* Phase runs over records that carry text: tiktoken_test.py may shorten    *)
(* the bodies before a run; the provider and the disk are reliable.        *)
(***************************************************************************)
InitText ==
  /\ \E c \in {<<"p2", "gemini">>, <<"p4", "gemini">>} : phase = c[1] /\ provider = c[2]
  /\ n = NumRecords
  /\ RunnerIdle
  /\ BulkOff
  /\ plny_skutek \in [Ids -> Bodies]
  /\ plny_skutek_short = [r \in Ids |-> Missing]
  /\ ParseOff
  /\ ConfOff

\* tiktoken_test.py: every record gets plny_skutek_short
Shorten ==
  /\ pc \in {"idle", "done"}
  /\ plny_skutek_short' = [r \in Ids |-> treat_dp_text(plny_skutek[r], treat_limit)]
  /\ UNCHANGED <<phase, provider, n, bulkVars, parseVars, confVars, plny_skutek, file,
                 fileBefore, pc, idx, memVars, recVars, histVars>>

NextText ==
  \/ Shorten
  \/ StartRun
  \/ SkipRecord
  \/ SelectRecord
  \/ ProviderMiss
  \/ ProviderHit
  \/ SaveOpen
  \/ SaveWrite
  \/ Finish

SpecText == InitText /\ [][NextText]_vars

(***************************************************************************)
(* response_to_json applied to one content under each wrapping.            *)
(***************************************************************************)
InitParse ==
  /\ phase = "p2" /\ provider = "gemini" /\ n = NumRecords
  /\ RunnerIdle
  /\ BulkOff
  /\ TextOff
  /\ content \in SeqsUpTo(ContentTokens, MaxContent)
  /\ parsed = [w \in Wrappings |-> NotParsed]
  /\ ConfOff

ParseResponse ==
  /\ \E w \in Wrappings :
       /\ parsed[w] = NotParsed
       /\ parsed' = [parsed EXCEPT ![w] = response_to_json(Wrap(content, w))]
  /\ UNCHANGED <<phase, provider, n, bulkVars, textVars, confVars, content, file,
                 fileBefore, pc, idx, memVars, recVars, histVars>>

NextParse == ParseResponse

SpecParse == InitParse /\ [][NextParse]_vars

(***************************************************************************)
(* The two-run scenario of phase 2: records 1 (A) and 2 (B) without the    *)
(* output field; in the first run the provider only ever labels A, in the  *)
(* second run it labels B.  Provider and disk are reliable.                *)
(***************************************************************************)
InitScenario ==
  /\ phase = "p2" /\ provider \in {"gemini", "openai"}
  /\ n = 2                                \* the records A and B
  /\ RunnerIdle
  /\ BulkOff
  /\ TextOff
  /\ ParseOff
  /\ ConfOff

\* the first and the second invocation of the script
ScenarioStart == savedBefore = {} /\ pc \in {"idle", "done"} /\ StartRun

\* run 1: the response holds A's label; run 2: the response holds B's label
ScenarioHit ==
  /\ \/ savedBefore = {} /\ cur = 1
     \/ savedBefore = {1} /\ cur = 2
  /\ ProviderHit

\* run 1, prompt of B: the response holds only A's label
ScenarioMiss == savedBefore = {} /\ cur = 2 /\ ProviderMiss

NextScenario ==
  \/ ScenarioStart
  \/ SkipRecord
  \/ SelectRecord
  \/ ScenarioHit
  \/ ScenarioMiss
  \/ SaveOpen
  \/ SaveWrite
  \/ Finish

SpecScenario == InitScenario /\ [][NextScenario]_vars

(***************************************************************************)
(* Runs under every startup configuration: any MODEL_PROVIDER value, any   *)
(* one startup file missing.  The disk is reliable; the provider may miss  *)
(* or raise.                                                               *)
(***************************************************************************)
InitConfig ==
  /\ phase \in {"p2", "p3", "p4"} /\ provider \in Providers
  /\ n = 2
  /\ RunnerIdle
  /\ BulkOff
  /\ TextOff
  /\ ParseOff
  /\ missing \in StartupFiles \cup {"none"}
  /\ PromptOff
  /\ InputsPresent
  /\ ExtraOff

NextConfig ==
  \/ StartRun
  \/ SkipRecord
  \/ SelectRecord
  \/ ProviderRaises
  \/ ProviderMiss
  \/ ProviderHit
  \/ SaveOpen
  \/ SaveWrite
  \/ Finish

SpecConfig == InitConfig /\ [][NextConfig]_vars

(***************************************************************************)
(* The prompt each builder makes of one template and one instructions      *)
(* argument.                                                               *)
(***************************************************************************)
InitPrompt ==
  /\ phase = "p2" /\ provider = "gemini" /\ n = NumRecords
  /\ RunnerIdle
  /\ BulkOff
  /\ TextOff
  /\ ParseOff
  /\ missing = "none"
  /\ template \in SeqsUpTo(TemplateTokens, MaxTemplate)
  /\ global_instructions \in InstructionValues
  /\ user_prompt = [b \in Builders |-> NotBuilt]
  /\ InputsPresent
  /\ ExtraOff

BuildPrompt ==
  /\ \E b \in Builders :
       /\ user_prompt[b] = NotBuilt
       /\ user_prompt' = [user_prompt EXCEPT ![b] = BuiltPrompt(b, template, global_instructions)]
  /\ UNCHANGED <<phase, provider, n, bulkVars, textVars, parseVars, missing, template,
                 global_instructions, initial_code_0, extraVars, file, fileBefore, pc, idx,
                 memVars, recVars, histVars>>

NextPrompt == BuildPrompt

SpecPrompt == InitPrompt /\ [][NextPrompt]_vars

(***************************************************************************)
(* Phase 3 over a dataset in which any record may lack the phase-2 output; *)
(* the provider and the disk are reliable.                                 *)
(***************************************************************************)
InitInputs ==
  /\ phase = "p3" /\ provider = "gemini" /\ n = NumRecords
  /\ RunnerIdle
  /\ BulkOff
  /\ TextOff
  /\ ParseOff
  /\ missing = "none" /\ PromptOff
  /\ initial_code_0 \in SUBSET Ids
  /\ ExtraOff

SpecInputs == InitInputs /\ [][NextVocab]_vars

(***************************************************************************)
(* Every builder renders one list of labels.                               *)
(***************************************************************************)
InitRender ==
  /\ phase = "p2" /\ provider = "gemini" /\ n = NumRecords
  /\ RunnerIdle
  /\ BulkOff
  /\ TextOff
  /\ ParseOff
  /\ missing = "none" /\ PromptOff /\ InputsPresent
  /\ all_existing_themes \in SeqsUpTo(VocabValues, MaxVocab)
  /\ themes_text = [b \in Renderers |-> NotRendered]
  /\ NoOtherWriter
  /\ AddOff

RenderVocabulary ==
  /\ \E b \in Renderers :
       /\ themes_text[b] = NotRendered
       /\ themes_text' = [themes_text EXCEPT ![b] =
                           RenderedText(b, BuilderInput(b, all_existing_themes))]
  /\ UNCHANGED <<phase, provider, n, bulkVars, textVars, parseVars, missing, template,
                 global_instructions, user_prompt, initial_code_0, all_existing_themes,
                 other_writes, addVars, file, fileBefore, pc, idx, memVars, recVars,
                 histVars>>

NextRender == RenderVocabulary

SpecRender == InitRender /\ [][NextRender]_vars

(***************************************************************************)
(* A phase run on a reliable provider and disk, and a second run of the     *)
(* script on the same dataset file.                                        *)
(***************************************************************************)
InitWriters ==
  /\ phase \in {"p2", "p3"} /\ provider = "gemini" /\ n = NumRecords
  /\ RunnerIdle
  /\ BulkOff
  /\ TextOff
  /\ ParseOff
  /\ ConfOff

\* between two steps of the run the second writer loads the file, applies a
\* label to a record that has none in the file, and saves the file
OtherWrite ==
  /\ pc \in {"loop", "call", "save"}
  /\ file.ok /\ other_writes = {}
  /\ \E r \in Ids, l \in StrLabels :
       /\ file.d[r] = None
       /\ file' = [file EXCEPT !.d[r] = l]
       /\ other_writes' = {<<r, l>>}
  /\ UNCHANGED <<phase, provider, n, bulkVars, textVars, parseVars, missing, template,
                 global_instructions, user_prompt, initial_code_0, renderVars, addVars,
                 fileBefore, pc, idx, memVars, recVars, histVars>>

NextWriters ==
  \/ StartRun
  \/ SkipRecord
  \/ SelectRecord
  \/ ProviderMiss
  \/ ProviderHit
  \/ SaveOpen
  \/ SaveWrite
  \/ Finish
  \/ OtherWrite

SpecWriters == InitWriters /\ [][NextWriters]_vars

(***************************************************************************)
(* add_codes.py: one call of add_codes on a parsed response.               *)
(***************************************************************************)
InitAdd ==
  /\ phase = "p2" /\ provider = "gemini" /\ n = NumRecords
  /\ RunnerIdle
  /\ BulkOff
  /\ TextOff
  /\ ParseOff
  /\ missing = "none" /\ PromptOff /\ InputsPresent
  /\ RenderOff /\ NoOtherWriter
  /\ response_json \in Responses
  /\ existing_codes \in SeqsUpTo(ExistingValues, MaxCodes)
  /\ truly_new_codes = NoCall

AddCodes ==
  /\ truly_new_codes = NoCall
  /\ truly_new_codes' = add_codes(response_json, existing_codes)
  /\ UNCHANGED <<phase, provider, n, bulkVars, textVars, parseVars, missing, template,
                 global_instructions, user_prompt, initial_code_0, renderVars,
                 other_writes, response_json, existing_codes, file, fileBefore, pc, idx,
                 memVars, recVars, histVars>>

NextAdd == AddCodes

SpecAdd == InitAdd /\ [][NextAdd]_vars

\* the exit status of a process that ended: 0 after the last statement, 1
\* after sys.exit(1) or an unhandled exception (-1: no process has ended)
exit_status ==
  CASE pc = "done" -> 0
    [] pc \in {"aborted", "crashed"} -> 1
    [] OTHER -> -1

(***************************************************************************)
(* Properties of the phase runs.                                           *)
(***************************************************************************)
ResumePhases == {"p2", "p3", "p2c"}

\* labels applied in this run that the file does not hold
Unsaved == {r \in appliedRun : ~file.ok \/ file.d[r] = None}

\* C1: idempotent resumption in phases 2 and 3. No record that an earlier run
\* applied and saved is applied again, and once every record was applied and
\* saved a run makes no provider call and applies nothing.
C1_IdempotentResumption ==
  phase \in ResumePhases =>
    /\ appliedRun \cap savedBefore = {}
    /\ savedBefore = Ids => (~calledRun /\ appliedRun = {})

\* a later run applies and saves a record after an earlier run saved another
C1_Witness ==
  /\ phase \in ResumePhases
  /\ savedBefore # {} /\ appliedRun # {} /\ savedRun = appliedRun
  /\ pc = "done"

\* C2: save is atomic. At every point the file is parseable, and during a
\* save it holds the complete previous or the complete new content.
C2_SaveAtomic ==
  /\ file.ok
  /\ pc \in {"save", "write"} => file \in {fileBefore, [ok |-> TRUE, d |-> data]}

\* C3: immediate persistence. When the provider call for a record starts,
\* every label applied before is in the file, and at any point between saves
\* the labels applied in this run and missing from the file are those of at
\* most one record.
C3_ImmediatePersistence ==
  /\ pc = "call" => Unsaved = {}
  /\ pc \in {"loop", "call", "save", "crashed", "done"} => Cardinality(Unsaved) <= 1

\* C4: retry bound for rate limiting. A record whose every call was answered
\* with a rate-limit error gets exactly max_retries calls, with a sleep
\* between consecutive calls and none after the last, and stays pending.
C4_RateLimitRetryBound ==
  profile = "ratelimit" =>
    /\ pc = "call" => (calls < max_retries /\ sleeps = calls)
    /\ pc = "loop" => (calls = max_retries /\ sleeps = calls - 1 /\ ~Done(data, cur))

\* C5: termination by a bounded retry. In every provider path the retry on
\* rate-limit errors is bounded by an attempt count: the client's retry
\* counter never passes the configured limit.
C5_RetryBoundedByAttemptCount ==
  /\ pc = "call" => depth <= limit
  /\ profile = "ratelimit" => calls <= limit + 1

\* C6: missing id. While every response for the record lacks its id the
\* runner calls the provider at most max_retries times; after exactly
\* max_retries calls it reports the record as not found, writes no label for
\* it and goes on with the loop.
C6_MissingIdSkip ==
  profile = "miss" =>
    \/ /\ pc = "call"
       /\ calls = attempt /\ calls < max_retries
       /\ cur \notin appliedRun /\ ~Done(data, cur)
    \/ /\ pc = "loop"
       /\ calls = max_retries
       /\ report = <<"notfound", "">>
       /\ cur \notin appliedRun /\ ~Done(data, cur)
       /\ file.ok => file.d[cur] = data[cur]
       /\ idx > cur

\* a record was given up after three responses without its id and the loop
\* stands at the next record
C6_Witness ==
  /\ profile = "miss" /\ pc = "loop" /\ calls = max_retries
  /\ cur = 1 /\ idx = 2

\* C7: content-policy block. A blocked response ends the work on the record:
\* no further call (exactly one when the block was the first response), no
\* label in memory or in the file, a report that carries the safety message,
\* which no other failure carries, and the loop goes on.
C7_ContentBlock ==
  /\ profile = "blocked" => calls = 1
  /\ lastKind = "blocked" <=> report[2] = "safety"
  /\ lastKind = "blocked" =>
       /\ pc = "loop" /\ idx > cur
       /\ cur \notin appliedRun /\ ~Done(data, cur)
       /\ file.ok => file.d[cur] = data[cur]
       /\ cur \notin announced

\* the first record was blocked at its first call and the loop stands at the
\* next record
C7_Witness ==
  /\ profile = "blocked" /\ lastKind = "blocked" /\ calls = 1
  /\ pc = "loop" /\ cur = 1 /\ idx = 2

\* C8: save failure. A failed save is retried once; the record whose save
\* failed twice is neither counted nor announced, the records saved before
\* stay in the file, and the loop goes on.
C8_SaveFailureHandling ==
  report = <<"savefail", "">> =>
    /\ saveTries = 2
    /\ total_processed_this_run = Cardinality(savedRun)
    /\ cur \notin announced
    /\ file.ok /\ \A r \in savedRun \cup savedBefore : file.d[r] # None
    /\ pc = "loop"

\* C9 as stated: the labels rendered into a prompt include the labels
\* rendered into the prompt of the record before.
C9_MonotonicVocabulary == prevPromptVocab \subseteq promptVocab

\* C9 as amended: the rendered labels grow in phase 2; in phase 3 they grow as
\* long as the distinct themes do not exceed the cap of most_common.
C9_MonotonicWithinCap ==
  /\ phase \in {"p2", "p2c"} => prevPromptVocab \subseteq promptVocab
  /\ (phase = "p3" /\ pc = "call" /\ Cardinality(Range(candidate)) <= TopThemes)
       => prevPromptVocab \subseteq promptVocab

\* a prompt is built with more labels than the prompt before it
C9_Witness ==
  /\ pc = "call"
  /\ prevPromptVocab # {}
  /\ prevPromptVocab \subseteq promptVocab /\ prevPromptVocab # promptVocab


\* C10: once a batch has been handled, every member with a label in the
\* parsed response is reported as updated with that label, and every member
\* absent from the response is not reported as updated.
C10_PartialBatch ==
  \A c \in lastBatch :
    /\ json_result[c] \notin {Absent, "[]", ""} => AsList(updated[c]) = AsList(json_result[c])
    /\ json_result[c] = Absent => updated[c] = None

\* C11: the estimated size of every prompt that is sent, base cost plus the
\* record data, is at most PROMPT_LIMIT.
C11_BudgetRespect == pc = "call" => PromptTokens(candidate, cur) <= PROMPT_LIMIT

\* C12: a shortened body is the body itself when that is within the
\* allowance, and otherwise a prefix and a suffix of it joined by the marker
\* and no longer than the allowance; the text put into a prompt is within
\* the allowance.
C12_Truncation ==
  /\ \A r \in Ids : plny_skutek_short[r] # Missing =>
       LET b == plny_skutek[r]
           t == plny_skutek_short[r]
       IN IF Len(b) <= treat_limit
            THEN t = b
            ELSE /\ \E i, j \in 0..Len(b) :
                      t = SubSeq(b, 1, i) \o Marker \o SubSeq(b, Len(b) - j + 1, Len(b))
                 /\ Len(t) <= treat_limit
  /\ pc = "call" => Len(case_text(cur)) <= treat_limit

\* C13: response_to_json returns the same map for a content in a json
\* fence, in a plain fence and unfenced.
C13_FenceTolerance ==
  \A v, w \in Wrappings :
    (parsed[v] # NotParsed /\ parsed[w] # NotParsed) => parsed[v] = parsed[w]

\* C14: a response that does not decode to a map with the record's id, be it
\* undecodable text, a map without the id or JSON that is no object, counts
\* as 'not found': the record is tried 3 times and then left pending, and
\* the run goes on.
C14_SoftMiss ==
  profile \in {"miss", "nonobject"} =>
    \/ pc = "call" /\ calls < max_retries
    \/ /\ pc = "loop" /\ calls = max_retries
       /\ report = <<"notfound", "">>
       /\ ~Done(data, cur)

\* C15: in phases 2 and 3 a record's output field, once saved, stays in the
\* file through every further run: when no run is in progress, every record
\* saved by an earlier run still has its field in the file.
C15_OutputImmutable ==
  (phase \in {"p2", "p3"} /\ pc \in {"done", "crashed", "aborted"}) =>
    \A r \in savedBefore : file.ok /\ file.d[r] # None

C17_DerivedCounts ==
  (/\ phase \in {"p2", "p3"} /\ file.ok
   /\ \/ pc = "done"
      \/ pc = "loop" /\ cur \in announced /\ report = <<"applied", "">>)
    => processed_cases + total_processed_this_run = NumDone(file.d)

\* C18: a run that got past startup ends with the 'Complete' event, whatever
\* records failed and whatever the shape of the applied labels: no run ends
\* on an unhandled exception once its loop has begun.
C18_FinalSummary == pc = "aborted" => idx = 0

\* C19: the two-run scenario.  The first run ends with A labelled, B without
\* the field, processed 1 and remaining 1; the second run ends with B
\* labelled too, processed 2 and remaining 0; and every save writes the
\* labels already in the file back unchanged, so A's label stays as it was.
C19_TwoRunScenario ==
  /\ (pc \in {"save", "write"} /\ fileBefore.ok) =>
       \A r \in Ids : fileBefore.d[r] # None => data[r] = fileBefore.d[r]
  /\ (pc = "done" /\ savedBefore = {}) =>
       /\ file.ok /\ file.d[1] # None /\ file.d[2] = None
       /\ processed_cases + total_processed_this_run = 1
       /\ n - (processed_cases + total_processed_this_run) = 1
  /\ (pc = "done" /\ savedBefore = {1}) =>
       /\ file.ok /\ file.d[1] # None /\ file.d[2] # None
       /\ processed_cases = 1 /\ total_processed_this_run = 1
       /\ n - (processed_cases + total_processed_this_run) = 0

\* the second run has ended: both records are labelled in the file
C19_Witness ==
  /\ pc = "done" /\ savedBefore = {1} /\ savedRun = {2}
  /\ file.ok /\ file.d[1] # None /\ file.d[2] # None

\* C20: the output field is written only with a non-empty label: no record
\* holds an empty string or a list with an empty member, in memory or in
\* the file.
C20_NonEmptyLabels ==
  \A r \in Ids :
    /\ data[r] \notin {EmptyLabel, "[e]"}
    /\ file.ok => file.d[r] \notin {EmptyLabel, "[e]"}

\* C21: a run with an unsupported MODEL_PROVIDER aborts at startup: no record
\* is selected and no provider call is made
C21_UnknownProviderFailsFast ==
  provider \notin Supported => (pc \in {"idle", "aborted"} /\ idx = 0 /\ ~calledRun)

\* C22: with a startup file missing the run ends with a non-zero status, no
\* provider call and no write of the dataset file; a run that passed startup
\* ends with status 0
C22_ConfigErrorsAbort ==
  /\ (missing \in {"dataset", "template", "system_prompt"} /\ pc # "idle") =>
       (exit_status = 1 /\ ~calledRun /\ file = [ok |-> TRUE, d |-> NoData])
  /\ (pc \in {"done", "aborted"} /\ idx >= 1) => exit_status = 0

\* C23: no prompt that is sent holds a placeholder that was not substituted,
\* and every prompt holds the record data
C23_NoUnsubstitutedPlaceholder ==
  \A b \in Builders : user_prompt[b] # NotBuilt =>
    /\ \A i \in DOMAIN user_prompt[b] : user_prompt[b][i] \notin Placeholders
    /\ \E i \in DOMAIN user_prompt[b] : user_prompt[b][i] = "data"

\* C24 as stated: the prompt of a record in flight renders every label applied
\* earlier in the run (the members of a list-valued label).
C24_VocabularyRefresh ==
  (pc = "call" /\ phase \in {"p2", "p2c", "p3"}) =>
    \A r \in appliedRun : Range(Flatten(data[r])) \subseteq promptVocab

\* C24 as amended: so in phase 2; in phase 3 as long as the distinct themes
\* do not exceed the cap of most_common.
C24_RefreshWithinCap ==
  (/\ pc = "call" /\ phase \in {"p2", "p2c", "p3"}
   /\ phase = "p3" => Cardinality(Range(candidate)) <= TopThemes) =>
    \A r \in appliedRun : Range(Flatten(data[r])) \subseteq promptVocab

\* the third record of a run is in flight and the prompt renders the labels
\* of the two records applied before it
C24_Witness ==
  /\ pc = "call" /\ Cardinality(appliedRun) = 2
  /\ phase \in {"p2", "p3"}
  /\ \A r \in appliedRun : Range(Flatten(data[r])) \subseteq promptVocab

\* C25: a member of a handled batch whose id is no key of the parsed response
\* is given no value of the response: it is not reported, or keeps its
\* existing codes.
C25_VerbatimIds ==
  \A c \in lastBatch : json_result[c] = Absent => updated[c] \in {None, existingCodes}

\* C26: in phase 3 a record without initial_code_0 is never sent to the
\* provider and never gets a candidate_theme.
C26_InputGate ==
  /\ pc = "call" => codes_text(cur) # ""
  /\ \A r \in Ids \ initial_code_0 : data[r] = None /\ (file.ok => file.d[r] = None)

\* C27: a bulk operation that ended has gone through every batch, and it
\* returns every result that a batch contributed.
C27_FailureIsolation ==
  bpc \in {"done", "failed"} =>
    /\ bpos > Len(BulkCases)
    /\ \A c \in BulkIds : updated[c] # None => Returned[c] = updated[c]

\* C28: outside the write of a save the file holds the whole dataset with
\* every field a run saved, and during a run every record that the run has not
\* applied is in memory as it is in the file.
C28_Frame ==
  /\ pc # "write" =>
       /\ file.ok
       /\ \A r \in savedBefore \cup savedRun : file.d[r] # None
  /\ (pc \in Running /\ file.ok) => \A r \in Ids \ appliedRun : data[r] = file.d[r]

\* C29: in every prompt built from a template made for the builder,
\* instructions that are given stand immediately before the data section and
\* after the vocabulary; blank or absent ones add nothing
C29_SteeringPlacement ==
  \A b \in Builders : (user_prompt[b] # NotBuilt /\ MadeFor(template, b)) =>
    LET u == user_prompt[b]
    IN  IF global_instructions = "given"
          THEN /\ \E i \in DOMAIN u : u[i] = "instructions"
               /\ \A i \in DOMAIN u : u[i] = "instructions" =>
                    /\ i + 1 \in DOMAIN u /\ u[i + 1] = "data"
                    /\ \A j \in DOMAIN u : u[j] = "codes" => j < i
          ELSE \A i \in DOMAIN u : u[i] # "instructions"

\* C30: the output field of a record holds a value as the response gave it:
\* a string or the list of the response, never a list the runner made out of
\* a string label (the values of Wrapped).
C30_LabelsPreserved ==
  \A r \in Ids : data[r] \notin Wrapped /\ (file.ok => file.d[r] \notin Wrapped)

\* position of a string label in lexicographic order
LexRank(l) == CASE l = EmptyLabel -> 0 [] l = "a" -> 1 [] l = "b" -> 2 [] OTHER -> 3

\* C31: the capped vocabulary of phase 3 holds the themes of highest
\* frequency, ties broken lexicographically, so it depends only on the
\* multiset of themes collected.
C31_DeterministicCap ==
  (phase = "p3" /\ pc = "call") =>
    promptVocab =
      {x \in Range(candidate) :
         Cardinality({y \in Range(candidate) :
            \/ Count(candidate, y) > Count(candidate, x)
            \/ Count(candidate, y) = Count(candidate, x) /\ LexRank(y) < LexRank(x)})
           < TopThemes}

\* C32: a builder that rendered a list without any label filled the
\* placeholder with the first-batch sentence, and a builder that rendered a
\* list with labels did not.
C32_EmptySentinel ==
  \A b \in Renderers : themes_text[b] \notin {NotRendered, "raises"} =>
    IF Strings(all_existing_themes) = <<>>
      THEN themes_text[b] = "sentinel"
      ELSE themes_text[b] # "sentinel"

\* C33: every step that emits a record-level event emits it for the record in
\* hand, at the end of a save after which the file holds that record's label;
\* and a record whose save ends has had no event in this run before.
C33_EventsFollowDurability ==
  [][/\ \A r \in announced' \ announced :
          /\ r = cur /\ pc = "write"
          /\ file'.ok /\ data[r] # None /\ file'.d[r] = data[r]
     /\ (pc \in {"save", "write"} /\ pc' = "loop") => cur \notin announced]_vars

\* a record was saved and its event emitted; the file holds its label
C33_Witness ==
  /\ pc = "loop" /\ cur \in announced /\ cur \in savedRun
  /\ file.ok /\ file.d[cur] = data[cur]

\* C34: in a run of phase 2 or 3 the record in flight is the one the loop
\* stands at, and a run that passed startup ends only after the loop has
\* gone over every key of the dataset.
C34_SinglePass ==
  phase \in {"p2", "p2c", "p3"} =>
    /\ pc \in {"call", "save", "write"} => (cur = idx /\ cur \in Ids)
    /\ (pc \in {"done", "aborted"} /\ idx # 0) => idx = n + 1

\* C35: in phase 4 processed_cases, the count that the progress events and
\* the final event carry, is at most the number of records.
C35_Phase4CountBound == phase = "p4" => processed_cases <= n

\* C36: in phases 2 and 3 every label rendered into the prompt of the record
\* in flight is (a member of) the output field of a record in the file.
C36_DurableVocabulary ==
  (pc = "call" /\ phase \in {"p2", "p2c", "p3"}) =>
    \A l \in promptVocab :
      file.ok /\ \E r \in Ids : file.d[r] # None /\ l \in Range(Flatten(file.d[r]))

\* C37: outside the write of a save, the file holds every field that the
\* second writer put in it.
C37_NoLostUpdate ==
  pc # "write" => \A w \in other_writes : file.ok /\ file.d[w[1]] = w[2]

\* C38: in the codes script every member of a handled batch is in the result,
\* with the non-empty list of its own response entry or, when that entry is
\* missing or empty, with its existing codes; the map that is returned has
\* every case of the input as a key.
C38_BulkCodesCoverage ==
  script = "codes" =>
    /\ \A c \in lastBatch :
         updated[c] = IF json_result[c] \in {Absent, "[]", ""}
                        THEN existingCodes ELSE AsList(json_result[c])
    /\ bpc = "done" => \A c \in BulkIds : Returned[c] # None

\* C39: every code add_codes returns is non-empty and differs, letter case
\* aside, from every existing code of the case; when every code of the
\* response is blank or repeats an existing code, the call returns the empty
\* list.
C39_OnlyNewCodes ==
  LET generated == AsCodeList(new_codes(response_json)) IN
  truly_new_codes # NoCall =>
    /\ truly_new_codes.status = "returned" =>
         \A i \in DOMAIN truly_new_codes.codes :
           /\ truly_new_codes.codes[i] # ""
           /\ \A k \in DOMAIN existing_codes :
                Lower(truly_new_codes.codes[i]) # Lower(existing_codes[k])
    /\ ( /\ new_codes(response_json) # NoValidCodes
         /\ \A i \in DOMAIN generated :
              \/ Strip(generated[i]) = ""
              \/ \E k \in DOMAIN existing_codes :
                   Lower(generated[i]) = Lower(existing_codes[k]) )
         => truly_new_codes = [status |-> "returned", codes |-> <<>>]

\* a call whose response holds "x" and a blank code for a case that has the
\* code "X": both are dropped and the empty list is returned
C39_Witness ==
  /\ existing_codes = <<"X">>
  /\ AsCodeList(new_codes(response_json)) = <<"x", " ">>
  /\ truly_new_codes = [status |-> "returned", codes |-> <<>>]

====
